---- MODULE Spec2Model ----
(***************************************************************************)
(* Model of the differential SQL test runner of planetscale/vt:           *)
(*   go/tester/tester.go  - testerState, Tester.Run, Tester.runQuery      *)
(*   go/tester/tracer.go  - Tracer.runQuery, Tracer.trace                 *)
(* The run loop consumes one directive per step.  The directive stream is *)
(* not fixed in advance: each step draws the next directive and the       *)
(* answers of the external collaborators (backends, version oracle, file  *)
(* system) from small sets, so every stream of up to MaxSteps directives  *)
(* is explored.                                                           *)
(***************************************************************************)
EXTENDS Integers, Sequences, FiniteSets, TLC

\* ------------------------------------------------------------------ bounds
\* number of directives in the stream
MaxSteps == 3

\* ------------------------------------------------------- directive payloads
\* q.Query is modelled as the list of words separated by single spaces, which
\* is what strings.Split(q.Query, " ") yields; "" is the empty word produced
\* by a doubled or trailing space.
ScopeTexts ==
  { <<"only", "begin">>, <<"only", "end">>, <<"only", "stop">>, <<"only">>,
    <<"only", "begin", "">> }

GateTexts ==
  { <<"skip_if_below_version", "mysqld", "8">>,
    <<"skip_if_below_version", "mysqld", "x">>,
    <<"skip_if_below_version", "mysqld">> }

VExplainTexts ==
  { <<"vexplain", "plan">>, <<"vexplain">> }

WaitTexts ==
  { <<"wait_authoritative", "t1">>, <<"wait_authoritative", "t1", "ks">>,
    <<"wait_authoritative">> }

\* SQL statements of query directives
Statements ==
  { "select 1", "insert into t values (1)", "create table t (id int)", "selec 1" }

\* versions the installed binary may report
InstalledVersions == {5, 8}

NoErr == <<>>

\* ------------------------------------------------------- library behaviour
\* strconv.Atoi on the words used as version arguments
Atoi(w) ==
  CASE w = "5" -> [ok |-> TRUE, v |-> 5]
    [] w = "8" -> [ok |-> TRUE, v |-> 8]
    [] w = "9" -> [ok |-> TRUE, v |-> 9]
    [] OTHER   -> [ok |-> FALSE, v |-> 0]

\* sqlparser.Parse: the statement kind, or a parse error
Parse(text) ==
  CASE text = "select 1"                 -> [ok |-> TRUE,  ast |-> "select"]
    [] text = "insert into t values (1)" -> [ok |-> TRUE,  ast |-> "insert"]
    [] text = "create table t (id int)"  -> [ok |-> TRUE,  ast |-> "create"]
    [] OTHER                             -> [ok |-> FALSE, ast |-> "none"]

\* sqlparser.IsDMLStatement
IsDMLStatement(ast) == ast \in {"insert", "update", "delete"}

\* cfg.ast.(sqlparser.SelectStatement)
IsSelectStatement(ast) == ast \in {"select", "union"}

\* utils.BinaryIsAtLeastAtVersion: the version oracle
BinaryIsAtLeastAtVersion(version, binary, installed) == installed >= version

\* ---------------------------------------------------------------- events
\* What one directive's handling did to the reporter, the connections and
\* the trace file, in order.  "inner.runQuery" marks the call of the inner
\* runner by a decorator, with ok = it returned nil.
Ev(op, ok) == [op |-> op, ok |-> ok]

AddTestCase == Ev("AddTestCase", TRUE)
EndTestCase == Ev("EndTestCase", TRUE)
AddFailure  == Ev("AddFailure", TRUE)
AddInfo     == Ev("AddInfo", TRUE)

RECURSIVE CountOp(_, _)
CountOp(evs, ops) ==
  IF evs = <<>> THEN 0
  ELSE (IF Head(evs).op \in ops THEN 1 ELSE 0) + CountOp(Tail(evs), ops)

\* operations that execute the statement on the target (VtConn)
TargetOps == {"vt.exec", "vt.trace"}
\* every statement sent on the target connection
TargetConnOps == {"vt.exec", "vt.trace", "vt.vexplain", "vt.setWorkload"}
\* every statement sent on the reference connection
ReferenceConnOps == {"mysql.exec", "mysql.showTables"}

Failures(evs) == CountOp(evs, {"AddFailure"})

\* ------------------------------------------------------------- mode state
InitState ==
  [ skip |-> FALSE, skipBinary |-> "", skipVersion |-> 0,
    vitessOnly |-> FALSE, mysqlOnly |-> FALSE, reference |-> FALSE ]

\* referenceNext without the check of the skip flag
referenceNext_IgnoresSkip(st) ==
  IF st.vitessOnly \/ st.mysqlOnly THEN st
  ELSE [st EXCEPT !.reference = TRUE]

referenceNext(st) ==
  IF st.vitessOnly \/ st.mysqlOnly \/ st.skip THEN st
  ELSE [st EXCEPT !.reference = TRUE]

\* shouldReference that reads the flag and leaves it set
shouldReference_NoClear(st) == [st |-> st, ret |-> st.reference]

shouldReference(st) ==
  IF st.reference THEN [st |-> [st EXCEPT !.reference = FALSE], ret |-> TRUE]
  ELSE [st |-> st, ret |-> FALSE]

\* skipNext that yields to the scopes but not to a pending reference
skipNext_IgnoresReference(st) ==
  IF st.vitessOnly \/ st.mysqlOnly THEN st
  ELSE [st EXCEPT !.skip = TRUE]

\* skipNext without the precedence of the scopes and of reference
skipNext_Unconditional(st) == [st EXCEPT !.skip = TRUE]

skipNext(st) ==
  IF st.vitessOnly \/ st.mysqlOnly \/ st.reference THEN st
  ELSE [st EXCEPT !.skip = TRUE]

skipIfBelow(st, binary, version) ==
  [st EXCEPT !.skipBinary = binary, !.skipVersion = version]

\* shouldSkip that looks at the version gate before the skip flag
shouldSkip_GateFirst(st, installed) ==
  IF st.skipBinary # ""
    THEN LET okayToRun ==
               BinaryIsAtLeastAtVersion(st.skipVersion, st.skipBinary, installed)
         IN [st |-> [st EXCEPT !.skipBinary = ""], ret |-> ~okayToRun,
             reason |-> "version"]
  ELSE IF st.skip
    THEN [st |-> [st EXCEPT !.skip = FALSE], ret |-> TRUE, reason |-> "skip"]
  ELSE [st |-> st, ret |-> FALSE, reason |-> "none"]

\* shouldSkip that answers from the skip flag without clearing it
shouldSkip_KeepsSkip(st, installed) ==
  IF st.skip
    THEN [st |-> st, ret |-> TRUE, reason |-> "skip"]
  ELSE IF st.skipBinary # ""
    THEN LET okayToRun ==
               BinaryIsAtLeastAtVersion(st.skipVersion, st.skipBinary, installed)
         IN [st |-> [st EXCEPT !.skipBinary = ""], ret |-> ~okayToRun,
             reason |-> "version"]
  ELSE [st |-> st, ret |-> FALSE, reason |-> "none"]

\* shouldSkip that returns okayToRun instead of its negation
shouldSkip_Inverted(st, installed) ==
  IF st.skip
    THEN [st |-> [st EXCEPT !.skip = FALSE], ret |-> TRUE, reason |-> "skip"]
  ELSE IF st.skipBinary # ""
    THEN LET okayToRun ==
               BinaryIsAtLeastAtVersion(st.skipVersion, st.skipBinary, installed)
         IN [st |-> [st EXCEPT !.skipBinary = ""], ret |-> okayToRun,
             reason |-> "version"]
  ELSE [st |-> st, ret |-> FALSE, reason |-> "none"]

\* reason records which branch decided: "skip", "version" or "none"
shouldSkip(st, installed) ==
  IF st.skip
    THEN [st |-> [st EXCEPT !.skip = FALSE], ret |-> TRUE, reason |-> "skip"]
  ELSE IF st.skipBinary # ""
    THEN LET okayToRun ==
               BinaryIsAtLeastAtVersion(st.skipVersion, st.skipBinary, installed)
         IN [st |-> [st EXCEPT !.skipBinary = ""], ret |-> ~okayToRun,
             reason |-> "version"]
  ELSE [st |-> st, ret |-> FALSE, reason |-> "none"]

beginVitessOnly(st) ==
  IF st.vitessOnly THEN [st |-> st, err |-> <<"nested vitess_only begin">>]
  ELSE IF st.mysqlOnly
    THEN [st |-> st, err |-> <<"cannot begin vitess_only within mysql_only">>]
  ELSE [st |-> [st EXCEPT !.vitessOnly = TRUE], err |-> NoErr]

\* endVitessOnly that accepts an end without a begin
endVitessOnly_Silent(st) ==
  [st |-> [st EXCEPT !.vitessOnly = FALSE], err |-> NoErr]

endVitessOnly(st) ==
  IF ~st.vitessOnly THEN [st |-> st, err |-> <<"no vitess_only to end">>]
  ELSE [st |-> [st EXCEPT !.vitessOnly = FALSE], err |-> NoErr]

\* beginMySQLOnly without the check for an open vitess_only scope
beginMySQLOnly_NoCrossCheck(st) ==
  IF st.mysqlOnly THEN [st |-> st, err |-> <<"nested mysql_only begin">>]
  ELSE [st |-> [st EXCEPT !.mysqlOnly = TRUE], err |-> NoErr]

beginMySQLOnly(st) ==
  IF st.mysqlOnly THEN [st |-> st, err |-> <<"nested mysql_only begin">>]
  ELSE IF st.vitessOnly
    THEN [st |-> st, err |-> <<"cannot begin mysql_only within vitess_only">>]
  ELSE [st |-> [st EXCEPT !.mysqlOnly = TRUE], err |-> NoErr]

endMySQLOnly(st) ==
  IF ~st.mysqlOnly THEN [st |-> st, err |-> <<"no vitess_only to end">>]
  ELSE [st |-> [st EXCEPT !.mysqlOnly = FALSE], err |-> NoErr]

\* vitessOrMySQLOnly that takes every word other than "begin" for "end"
vitessOrMySQLOnly_DefaultEnds(strs, st, which) ==
  IF Len(strs) # 2 THEN [st |-> st, err |-> <<"incorrect syntax">>]
  ELSE IF strs[2] = "begin"
    THEN (IF which = "vitess" THEN beginVitessOnly(st) ELSE beginMySQLOnly(st))
  ELSE (IF which = "vitess" THEN endVitessOnly(st) ELSE endMySQLOnly(st))

\* vitessOrMySQLOnly(query, begin, end); which = "vitess" or "mysql" selects
\* the pair of callbacks passed by Run
vitessOrMySQLOnly(strs, st, which) ==
  IF Len(strs) # 2 THEN [st |-> st, err |-> <<"incorrect syntax">>]
  ELSE IF strs[2] = "begin"
    THEN (IF which = "vitess" THEN beginVitessOnly(st) ELSE beginMySQLOnly(st))
  ELSE IF strs[2] = "end"
    THEN (IF which = "vitess" THEN endVitessOnly(st) ELSE endMySQLOnly(st))
  ELSE [st |-> st, err |-> <<"incorrect syntax">>]

\* ------------------------------------------------------------ trace file
\* The trace file is a list of tokens: the brackets, the separating commas
\* and one entry per written trace object.
Tok(t) == [tok |-> t, Query |-> "", LineNumber |-> 0]

\* {"Query": <json of q.Query>, "LineNumber": "<q.Line>", "Trace": ...}
TraceEntry(q) == [tok |-> "entry", Query |-> q.Query, LineNumber |-> q.Line]

\* vterrors.Aggregate: nil for no errors, one combined error otherwise
Aggregate(errs) == errs

\* ------------------------------------------------------ query runner chain
\* Base runner (ComparingQueryRunner.runQuery): executes the statement on the
\* backends in scope, compares unless cfg.reference, and returns nil on
\* success or when the error was declared expected.
ComparingRunQuery(q, expectedErrs, cfg, env) ==
  LET vt   == IF cfg.vitess THEN <<Ev("vt.exec", ~env.tgtErr)>> ELSE <<>>
      my   == IF cfg.mysql THEN <<Ev("mysql.exec", ~env.refErr)>> ELSE <<>>
      e1   == IF cfg.vitess /\ env.tgtErr THEN <<"vitess error">> ELSE <<>>
      e2   == IF cfg.mysql /\ env.refErr THEN <<"mysql error">> ELSE <<>>
      e3   == IF cfg.vitess /\ cfg.mysql /\ ~cfg.reference /\ env.diverge
                 /\ ~env.tgtErr /\ ~env.refErr
              THEN <<"results differ">> ELSE <<>>
      errs == e1 \o e2 \o e3
      err  == IF expectedErrs THEN NoErr ELSE Aggregate(errs)
  IN [ err    |-> err,
       events |-> <<Ev("inner.runQuery", err = NoErr)>> \o vt \o my ]

\* Tracer.trace that writes its entry at the start of the file instead of
\* appending it
trace_Rewrites(q, awt, file, fileOpen, env) ==
  LET ex == Ev("vt.trace", env.traceRes # "exec")
  IN IF env.traceRes = "exec"
       THEN [err |-> <<"vexplain trace failed">>, events |-> <<ex>>,
             awt |-> awt, file |-> file]
     ELSE IF env.traceRes = "indent"
       THEN [err |-> <<"indent failed">>,
             events |-> <<ex, Ev("json.Indent", FALSE)>>,
             awt |-> awt, file |-> file]
     ELSE LET traceEntry ==
                (IF awt THEN <<Tok(",")>> ELSE <<>>) \o <<TraceEntry(q)>>
          IN IF env.traceRes = "write" \/ ~fileOpen
               THEN [err |-> <<"write failed">>,
                     events |-> <<ex, Ev("json.Indent", TRUE),
                                  Ev("file.write", FALSE)>>,
                     awt |-> TRUE, file |-> file]
               ELSE [err |-> NoErr,
                     events |-> <<ex, Ev("json.Indent", TRUE),
                                  Ev("file.write", TRUE)>>,
                     awt |-> TRUE, file |-> <<Tok("[")>> \o traceEntry]

\* Tracer.trace: returns the error, the events, and the new values of
\* alreadyWrittenTraces and of the file; the Write fails on a file that is
\* not open (a nil traceFile)
trace(q, awt, file, fileOpen, env) ==
  LET ex == Ev("vt.trace", env.traceRes # "exec")
  IN IF env.traceRes = "exec"
       THEN [err |-> <<"vexplain trace failed">>, events |-> <<ex>>,
             awt |-> awt, file |-> file]
     ELSE IF env.traceRes = "indent"
       THEN [err |-> <<"indent failed">>,
             events |-> <<ex, Ev("json.Indent", FALSE)>>,
             awt |-> awt, file |-> file]
     ELSE LET traceEntry ==
                (IF awt THEN <<Tok(",")>> ELSE <<>>) \o <<TraceEntry(q)>>
          IN IF env.traceRes = "write" \/ ~fileOpen
               THEN [err |-> <<"write failed">>,
                     events |-> <<ex, Ev("json.Indent", TRUE),
                                  Ev("file.write", FALSE)>>,
                     awt |-> TRUE, file |-> file]
               ELSE [err |-> NoErr,
                     events |-> <<ex, Ev("json.Indent", TRUE),
                                  Ev("file.write", TRUE)>>,
                     awt |-> TRUE, file |-> file \o traceEntry]

\* Tracer.runQuery that takes the direct path for an expected error too
TracerRunQuery_DirectOnExpectErr(q, expectErr, cfg, awt, file, fileOpen, env) ==
  IF IsDMLStatement(cfg.ast) /\ fileOpen /\ cfg.vitess
    THEN LET tr == trace(q, awt, file, fileOpen, env)
             my == IF cfg.mysql THEN <<Ev("mysql.exec", ~env.refErr)>>
                   ELSE <<>>
             e2 == IF cfg.mysql /\ env.refErr THEN <<"mysql error">>
                   ELSE <<>>
         IN [err |-> Aggregate(tr.err \o e2), events |-> tr.events \o my,
             awt |-> tr.awt, file |-> tr.file]
  ELSE LET in == ComparingRunQuery(q, expectErr, cfg, env)
       IN IF in.err # NoErr
            THEN [err |-> in.err, events |-> in.events,
                  awt |-> awt, file |-> file]
          ELSE IF cfg.vitess
                  /\ (IsSelectStatement(cfg.ast) \/ IsDMLStatement(cfg.ast))
            THEN LET tr == trace(q, awt, file, fileOpen, env)
                 IN [err |-> tr.err, events |-> in.events \o tr.events,
                     awt |-> tr.awt, file |-> tr.file]
          ELSE [err |-> NoErr, events |-> in.events,
                awt |-> awt, file |-> file]

\* Tracer.runQuery that traces every kind of statement after the inner runner
TracerRunQuery_TracesAll(q, expectErr, cfg, awt, file, fileOpen, env) ==
  IF IsDMLStatement(cfg.ast) /\ fileOpen /\ ~expectErr /\ cfg.vitess
    THEN LET tr == trace(q, awt, file, fileOpen, env)
             my == IF cfg.mysql THEN <<Ev("mysql.exec", ~env.refErr)>>
                   ELSE <<>>
             e2 == IF cfg.mysql /\ env.refErr THEN <<"mysql error">>
                   ELSE <<>>
         IN [err |-> Aggregate(tr.err \o e2), events |-> tr.events \o my,
             awt |-> tr.awt, file |-> tr.file]
  ELSE LET in == ComparingRunQuery(q, expectErr, cfg, env)
       IN IF in.err # NoErr
            THEN [err |-> in.err, events |-> in.events,
                  awt |-> awt, file |-> file]
          ELSE IF cfg.vitess
            THEN LET tr == trace(q, awt, file, fileOpen, env)
                 IN [err |-> tr.err, events |-> in.events \o tr.events,
                     awt |-> tr.awt, file |-> tr.file]
          ELSE [err |-> NoErr, events |-> in.events,
                awt |-> awt, file |-> file]

\* Tracer.runQuery that leaves the reference out once the trace has failed
TracerRunQuery_StopsAfterTraceErr(q, expectErr, cfg, awt, file, fileOpen, env) ==
  IF IsDMLStatement(cfg.ast) /\ fileOpen /\ ~expectErr /\ cfg.vitess
    THEN LET tr == trace(q, awt, file, fileOpen, env)
             my == IF cfg.mysql /\ tr.err = NoErr
                     THEN <<Ev("mysql.exec", ~env.refErr)>>
                   ELSE <<>>
             e2 == IF cfg.mysql /\ tr.err = NoErr /\ env.refErr
                     THEN <<"mysql error">>
                   ELSE <<>>
         IN [err |-> Aggregate(tr.err \o e2), events |-> tr.events \o my,
             awt |-> tr.awt, file |-> tr.file]
  ELSE LET in == ComparingRunQuery(q, expectErr, cfg, env)
       IN IF in.err # NoErr
            THEN [err |-> in.err, events |-> in.events,
                  awt |-> awt, file |-> file]
          ELSE IF cfg.vitess
                  /\ (IsSelectStatement(cfg.ast) \/ IsDMLStatement(cfg.ast))
            THEN LET tr == trace(q, awt, file, fileOpen, env)
                 IN [err |-> tr.err, events |-> in.events \o tr.events,
                     awt |-> tr.awt, file |-> tr.file]
          ELSE [err |-> NoErr, events |-> in.events,
                awt |-> awt, file |-> file]

\* Tracer.runQuery that returns nil after the trace on the delegating path
TracerRunQuery_DropsTraceErr(q, expectErr, cfg, awt, file, fileOpen, env) ==
  IF IsDMLStatement(cfg.ast) /\ fileOpen /\ ~expectErr /\ cfg.vitess
    THEN LET tr == trace(q, awt, file, fileOpen, env)
             my == IF cfg.mysql THEN <<Ev("mysql.exec", ~env.refErr)>>
                   ELSE <<>>
             e2 == IF cfg.mysql /\ env.refErr THEN <<"mysql error">>
                   ELSE <<>>
         IN [err |-> Aggregate(tr.err \o e2), events |-> tr.events \o my,
             awt |-> tr.awt, file |-> tr.file]
  ELSE LET in == ComparingRunQuery(q, expectErr, cfg, env)
       IN IF in.err # NoErr
            THEN [err |-> in.err, events |-> in.events,
                  awt |-> awt, file |-> file]
          ELSE IF cfg.vitess
                  /\ (IsSelectStatement(cfg.ast) \/ IsDMLStatement(cfg.ast))
            THEN LET tr == trace(q, awt, file, fileOpen, env)
                 IN [err |-> NoErr, events |-> in.events \o tr.events,
                     awt |-> tr.awt, file |-> tr.file]
          ELSE [err |-> NoErr, events |-> in.events,
                awt |-> awt, file |-> file]

\* Tracer.runQuery that leaves the reference error out of the aggregate
TracerRunQuery_DropsRefErr(q, expectErr, cfg, awt, file, fileOpen, env) ==
  IF IsDMLStatement(cfg.ast) /\ fileOpen /\ ~expectErr /\ cfg.vitess
    THEN LET tr == trace(q, awt, file, fileOpen, env)
             my == IF cfg.mysql THEN <<Ev("mysql.exec", ~env.refErr)>>
                   ELSE <<>>
             e2 == IF cfg.mysql /\ env.refErr THEN <<"mysql error">>
                   ELSE <<>>
         IN [err |-> Aggregate(tr.err), events |-> tr.events \o my,
             awt |-> tr.awt, file |-> tr.file]
  ELSE LET in == ComparingRunQuery(q, expectErr, cfg, env)
       IN IF in.err # NoErr
            THEN [err |-> in.err, events |-> in.events,
                  awt |-> awt, file |-> file]
          ELSE IF cfg.vitess
                  /\ (IsSelectStatement(cfg.ast) \/ IsDMLStatement(cfg.ast))
            THEN LET tr == trace(q, awt, file, fileOpen, env)
                 IN [err |-> tr.err, events |-> in.events \o tr.events,
                     awt |-> tr.awt, file |-> tr.file]
          ELSE [err |-> NoErr, events |-> in.events,
                awt |-> awt, file |-> file]

\* Tracer.runQuery that goes on to the trace capture after a failed inner run
TracerRunQuery_IgnoresInnerErr(q, expectErr, cfg, awt, file, fileOpen, env) ==
  IF IsDMLStatement(cfg.ast) /\ fileOpen /\ ~expectErr /\ cfg.vitess
    THEN LET tr == trace(q, awt, file, fileOpen, env)
             my == IF cfg.mysql THEN <<Ev("mysql.exec", ~env.refErr)>>
                   ELSE <<>>
             e2 == IF cfg.mysql /\ env.refErr THEN <<"mysql error">>
                   ELSE <<>>
         IN [err |-> Aggregate(tr.err \o e2), events |-> tr.events \o my,
             awt |-> tr.awt, file |-> tr.file]
  ELSE LET in == ComparingRunQuery(q, expectErr, cfg, env)
       IN IF cfg.vitess
             /\ (IsSelectStatement(cfg.ast) \/ IsDMLStatement(cfg.ast))
            THEN LET tr == trace(q, awt, file, fileOpen, env)
                 IN [err |-> Aggregate(in.err \o tr.err),
                     events |-> in.events \o tr.events,
                     awt |-> tr.awt, file |-> tr.file]
          ELSE [err |-> in.err, events |-> in.events,
                awt |-> awt, file |-> file]

\* Tracer.runQuery
TracerRunQuery(q, expectErr, cfg, awt, file, fileOpen, env) ==
  IF IsDMLStatement(cfg.ast) /\ fileOpen /\ ~expectErr /\ cfg.vitess
    THEN LET tr == trace(q, awt, file, fileOpen, env)
             my == IF cfg.mysql THEN <<Ev("mysql.exec", ~env.refErr)>>
                   ELSE <<>>
             e2 == IF cfg.mysql /\ env.refErr THEN <<"mysql error">>
                   ELSE <<>>
         IN [err |-> Aggregate(tr.err \o e2), events |-> tr.events \o my,
             awt |-> tr.awt, file |-> tr.file]
  ELSE LET in == ComparingRunQuery(q, expectErr, cfg, env)
       IN IF in.err # NoErr
            THEN [err |-> in.err, events |-> in.events,
                  awt |-> awt, file |-> file]
          ELSE IF cfg.vitess
                  /\ (IsSelectStatement(cfg.ast) \/ IsDMLStatement(cfg.ast))
            THEN LET tr == trace(q, awt, file, fileOpen, env)
                 IN [err |-> tr.err, events |-> in.events \o tr.events,
                     awt |-> tr.awt, file |-> tr.file]
          ELSE [err |-> NoErr, events |-> in.events,
                awt |-> awt, file |-> file]

\* t.qr.runQuery: the chain built by the factory, "comparing" for the base
\* runner alone and "tracer" for the base runner wrapped by the Tracer (whose
\* traceFile is the file the factory was given, never nil)
QrRunQuery(runner, q, expectErr, cfg, awt, file, env) ==
  IF runner = "tracer"
    THEN TracerRunQuery(q, expectErr, cfg, awt, file, TRUE, env)
  ELSE LET in == ComparingRunQuery(q, expectErr, cfg, env)
       IN [err |-> in.err, events |-> in.events, awt |-> awt, file |-> file]

\* the comparing runner got differing results from the two backends, and
\* no statement or write of this query's handling failed
Diverged(evs, env) ==
  /\ env.diverge
  /\ \E i \in 1..Len(evs) : evs[i].op = "inner.runQuery"
  /\ \E i \in 1..Len(evs) : evs[i].op = "vt.exec"
  /\ \E i \in 1..Len(evs) : evs[i].op = "mysql.exec"
  /\ \A i \in 1..Len(evs) : evs[i].op # "inner.runQuery" => evs[i].ok

NoCfg == [ast |-> "none", vitess |-> FALSE, mysql |-> FALSE, reference |-> FALSE]

\* Tester.runQuery that reads each scope flag for the wrong backend
runQuery_SwappedScopes(q, st, expErrs, runner, awt, file, env) ==
  LET sk == shouldSkip(st, env.installed)
  IN IF sk.ret
       THEN [st |-> sk.st, expectedErrs |-> expErrs, awt |-> awt,
             file |-> file, events |-> <<>>, skipped |-> TRUE,
             skipReason |-> sk.reason, dispatched |-> FALSE, cfg |-> NoCfg,
             expectErr |-> FALSE, err |-> NoErr, diverged |-> FALSE]
     ELSE LET p == Parse(q.Query)
          IN IF ~p.ok
               THEN [st |-> sk.st, expectedErrs |-> expErrs, awt |-> awt,
                     file |-> file, events |-> <<AddTestCase, AddFailure>>,
                     skipped |-> FALSE, skipReason |-> sk.reason,
                     dispatched |-> FALSE, cfg |-> NoCfg,
                     expectErr |-> FALSE, err |-> <<"parse error">>,
                     diverged |-> FALSE]
             ELSE LET sr  == shouldReference(sk.st)
                      cfg == [ast |-> p.ast, vitess |-> ~sk.st.vitessOnly,
                              mysql |-> ~sk.st.mysqlOnly,
                              reference |-> sr.ret]
                      r   == QrRunQuery(runner, q, expErrs, cfg, awt, file, env)
                  IN [st |-> sr.st, expectedErrs |-> FALSE, awt |-> r.awt,
                      file |-> r.file,
                      events |-> <<AddTestCase>> \o r.events
                                 \o (IF r.err # NoErr THEN <<AddFailure>>
                                     ELSE <<>>)
                                 \o <<EndTestCase>>,
                      skipped |-> FALSE, skipReason |-> sk.reason,
                      dispatched |-> TRUE, cfg |-> cfg,
                      expectErr |-> expErrs, err |-> r.err,
                      diverged |-> Diverged(r.events, env)]

\* Tester.runQuery that reports one failure for each error of the aggregate
runQuery_ReportsEachCause(q, st, expErrs, runner, awt, file, env) ==
  LET sk == shouldSkip(st, env.installed)
  IN IF sk.ret
       THEN [st |-> sk.st, expectedErrs |-> expErrs, awt |-> awt,
             file |-> file, events |-> <<>>, skipped |-> TRUE,
             skipReason |-> sk.reason, dispatched |-> FALSE, cfg |-> NoCfg,
             expectErr |-> FALSE, err |-> NoErr, diverged |-> FALSE]
     ELSE LET p == Parse(q.Query)
          IN IF ~p.ok
               THEN [st |-> sk.st, expectedErrs |-> expErrs, awt |-> awt,
                     file |-> file, events |-> <<AddTestCase, AddFailure>>,
                     skipped |-> FALSE, skipReason |-> sk.reason,
                     dispatched |-> FALSE, cfg |-> NoCfg,
                     expectErr |-> FALSE, err |-> <<"parse error">>,
                     diverged |-> FALSE]
             ELSE LET sr  == shouldReference(sk.st)
                      cfg == [ast |-> p.ast, vitess |-> ~sk.st.mysqlOnly,
                              mysql |-> ~sk.st.vitessOnly,
                              reference |-> sr.ret]
                      r   == QrRunQuery(runner, q, expErrs, cfg, awt, file, env)
                  IN [st |-> sr.st, expectedErrs |-> FALSE, awt |-> r.awt,
                      file |-> r.file,
                      events |-> <<AddTestCase>> \o r.events
                                 \o [i \in 1..Len(r.err) |-> AddFailure]
                                 \o <<EndTestCase>>,
                      skipped |-> FALSE, skipReason |-> sk.reason,
                      dispatched |-> TRUE, cfg |-> cfg,
                      expectErr |-> expErrs, err |-> r.err,
                      diverged |-> Diverged(r.events, env)]

\* Tester.runQuery: the new mode state, expectedErrs, trace bookkeeping and
\* what was done
runQuery(q, st, expErrs, runner, awt, file, env) ==
  LET sk == shouldSkip(st, env.installed)
  IN IF sk.ret
       THEN [st |-> sk.st, expectedErrs |-> expErrs, awt |-> awt,
             file |-> file, events |-> <<>>, skipped |-> TRUE,
             skipReason |-> sk.reason, dispatched |-> FALSE, cfg |-> NoCfg,
             expectErr |-> FALSE, err |-> NoErr, diverged |-> FALSE]
     ELSE LET p == Parse(q.Query)
          IN IF ~p.ok
               THEN [st |-> sk.st, expectedErrs |-> expErrs, awt |-> awt,
                     file |-> file, events |-> <<AddTestCase, AddFailure>>,
                     skipped |-> FALSE, skipReason |-> sk.reason,
                     dispatched |-> FALSE, cfg |-> NoCfg,
                     expectErr |-> FALSE, err |-> <<"parse error">>,
                     diverged |-> FALSE]
             ELSE LET sr  == shouldReference(sk.st)
                      cfg == [ast |-> p.ast, vitess |-> ~sk.st.mysqlOnly,
                              mysql |-> ~sk.st.vitessOnly,
                              reference |-> sr.ret]
                      r   == QrRunQuery(runner, q, expErrs, cfg, awt, file, env)
                  IN [st |-> sr.st, expectedErrs |-> FALSE, awt |-> r.awt,
                      file |-> r.file,
                      events |-> <<AddTestCase>> \o r.events
                                 \o (IF r.err # NoErr THEN <<AddFailure>>
                                     ELSE <<>>)
                                 \o <<EndTestCase>>,
                      skipped |-> FALSE, skipReason |-> sk.reason,
                      dispatched |-> TRUE, cfg |-> cfg,
                      expectErr |-> expErrs, err |-> r.err,
                      diverged |-> Diverged(r.events, env)]

\* Tester.findTable: nKs is the number of keyspaces of the vschema that hold
\* a table of that name
findTable(nKs) ==
  IF nKs > 1 THEN <<"table found in multiple keyspaces">>
  ELSE IF nKs = 0 THEN <<"table not found in any keyspace">>
  ELSE NoErr

\* Tester.waitAuthoritative: the events of the handling
waitAuthoritative(strs, nKs, waitErr) ==
  LET wait == <<Ev("cluster.wait", ~waitErr)>>
                \o (IF waitErr THEN <<AddFailure>> ELSE <<>>)
  IN IF Len(strs) = 2
       THEN (IF findTable(nKs) # NoErr THEN <<AddFailure>> ELSE wait)
     ELSE IF Len(strs) = 3 THEN wait
     ELSE <<AddFailure>> \o wait

\* ------------------------------------------------------------------ state
VARIABLES
  pc,                   \* "start", "loop", "end" (Run returned), "closed",
                        \* "exited" (exitIf ended the process)
  ret,                  \* what Run returned: "none", "nil", "loaderr",
                        \* "removeerr", "panic", "exit"
  step,                 \* number of directives handled
  state,                \* Tester.state
  expectedErrs,         \* Tester.expectedErrs
  vexplain,             \* Tester.vexplain
  qr,                   \* Tester.qr: "comparing" or "tracer"
  alreadyWrittenTraces, \* Tracer.alreadyWrittenTraces
  traceFile,            \* bytes of the trace file, as tokens
  autoVSchema,          \* Tester.autoVSchema()
  olap,                 \* Tester.olap
  postProcessCalls,     \* how often postProcess was called
  postProcessEvents,    \* what postProcess did
  last,                 \* the directive handled last and what its handling did
  keysPc,               \* keys.run: "start", "loop", "done" (run returned)
  keysRet,              \* what keys.run returned: "none", "nil", "loaderr",
                        \* "unknownerr", "writeerr"
  keysSkip,             \* the local variable skip of keys.run
  keysStream,           \* kinds of the directives keys.run has handled
  keysProcessed,        \* positions of the directives given to process
  keysOut,              \* writeJSONTo has written the output
  txData,               \* txSignatureMap.data: hash -> bucket
  txAdds,               \* the signatures given to Add so far
  recording,            \* the executions on the target are recorded
  targetLog             \* the executions on the target, in the order
                        \* they were made, each with its directive's line

\* the variables of the keys analysis and of the transaction signatures
keysVars == << keysPc, keysRet, keysSkip, keysStream, keysProcessed, keysOut >>
txVars == << txData, txAdds >>
orderVars == << recording, targetLog >>
analysisVars == << keysVars, txVars, orderVars >>

vars ==
  << pc, ret, step, state, expectedErrs, vexplain, qr, alreadyWrittenTraces,
     traceFile, autoVSchema, olap, postProcessCalls, postProcessEvents, last,
     analysisVars >>

\* keys.run before LoadQueries
keysInitial ==
  /\ keysPc = "start"
  /\ keysRet = "none"
  /\ keysSkip = FALSE
  /\ keysStream = <<>>
  /\ keysProcessed = <<>>
  /\ keysOut = FALSE

\* newTxSignatureMap
txInitial ==
  /\ txData = [h \in {} |-> <<>>]
  /\ txAdds = <<>>

\* events: what the handling did; for a query directive, vex holds the events
\* of the explain step of Run and events those of runQuery
Last(type, query, line, events) ==
  [ Type |-> type, Query |-> query, Line |-> line, vex |-> <<>>,
    events |-> events, called |-> FALSE, skipped |-> FALSE,
    skipReason |-> "none", installed |-> 0, dispatched |-> FALSE,
    cfg |-> NoCfg, expectErr |-> FALSE, err |-> NoErr, diverged |-> FALSE ]

AllEvents(l) == l.vex \o l.events

NewTester ==
  /\ pc = "start"
  /\ ret = "none"
  /\ step = 0
  /\ state = InitState
  /\ expectedErrs = FALSE
  /\ vexplain = ""
  /\ qr \in {"comparing", "tracer"}
  /\ alreadyWrittenTraces = FALSE
  /\ traceFile = IF qr = "tracer" THEN <<Tok("[")>> ELSE <<>>
  /\ autoVSchema \in BOOLEAN
  /\ olap \in BOOLEAN
  /\ postProcessCalls = 0
  /\ postProcessEvents = <<>>
  /\ last = Last("none", <<>>, 0, <<>>)
  /\ keysInitial
  /\ txInitial
  /\ targetLog = <<>>

\* the run loop on its own: the executions on the target are not recorded
Init ==
  /\ NewTester
  /\ recording = FALSE

\* the line of the directive that the loop takes after n directives, taken
\* from the last directive of the script backwards
Position_Reversed(n) == MaxSteps - n

\* the line of the directive that the loop takes after n directives: Run
\* ranges over the loaded directives in script order, one directive a line
Position(n) == n + 1

\* the statements in events that were executed on the target by the inner
\* runner or by the trace capture, in the order of their execution, for the
\* directive at line
Issued(line, events) ==
  LET made == SelectSeq(events, LAMBDA e : e.op \in TargetOps)
  IN [i \in 1..Len(made) |-> [line |-> line, op |-> made[i].op]]

\* numbers of rows that show tables answers with
ShowTablesRows == {0, 1}

\* Tester.postProcess: the tables of the reference backend are listed, each
\* one is dropped through curr.Exec and the connections are closed; exitIf
\* ends the process when the listing fails
postProcess(showTablesErr, rows) ==
  IF showTablesErr
    THEN [events |-> <<Ev("mysql.showTables", FALSE)>>, exit |-> TRUE]
  ELSE [events |-> <<Ev("mysql.showTables", TRUE)>>
                     \o [i \in 1..rows |-> Ev("curr.Exec", TRUE)]
                     \o <<Ev("curr.Close", TRUE)>>,
        exit |-> FALSE]

\* a postProcess deferred whatever the schema mode
Deferred_Unconditional(r) ==
  \E showTablesErr \in BOOLEAN :
  \E rows \in (IF showTablesErr THEN {0} ELSE ShowTablesRows) :
    LET post == postProcess(showTablesErr, rows)
    IN /\ postProcessCalls' = postProcessCalls + 1
       /\ postProcessEvents' = post.events
       /\ pc' = IF post.exit THEN "exited" ELSE "end"
       /\ ret' = IF post.exit THEN "exit" ELSE r

\* Run leaves with r: the deferred postProcess runs, and Run returns r (or
\* goes on panicking) unless postProcess ends the process
Deferred(r) ==
  IF autoVSchema
    THEN \E showTablesErr \in BOOLEAN :
         \E rows \in (IF showTablesErr THEN {0} ELSE ShowTablesRows) :
           LET post == postProcess(showTablesErr, rows)
           IN /\ postProcessCalls' = postProcessCalls + 1
              /\ postProcessEvents' = post.events
              /\ pc' = IF post.exit THEN "exited" ELSE "end"
              /\ ret' = IF post.exit THEN "exit" ELSE r
  ELSE /\ pc' = "end"
       /\ ret' = r
       /\ UNCHANGED << postProcessCalls, postProcessEvents >>

\* Tester.preProcess: with olap the workload is set on the target
\* connection, and exitIf ends the process when that statement fails
preProcess(isOlap, workloadErr) ==
  IF isOlap
    THEN [events |-> <<Ev("vt.setWorkload", ~workloadErr)>>,
          exit |-> workloadErr]
  ELSE [events |-> <<>>, exit |-> FALSE]

\* the start of Run: preProcess, the deferred postProcess (see Deferred),
\* then data.LoadQueries
Load ==
  /\ pc = "start"
  /\ \E workloadErr \in (IF olap THEN BOOLEAN ELSE {FALSE}) :
     \E loadErr \in (IF workloadErr THEN {FALSE} ELSE BOOLEAN) :
       LET pre == preProcess(olap, workloadErr)
       IN IF pre.exit
            THEN /\ pc' = "exited"
                 /\ ret' = "exit"
                 /\ last' = Last("none", <<>>, 0, pre.events)
                 /\ UNCHANGED << postProcessCalls, postProcessEvents >>
          ELSE IF loadErr
            THEN /\ Deferred("loaderr")
                 /\ last' = Last("none", <<>>, 0, pre.events \o <<AddFailure>>)
          ELSE /\ pc' = "loop"
               /\ last' = Last("none", <<>>, 0, pre.events)
               /\ UNCHANGED << ret, postProcessCalls, postProcessEvents >>
  /\ UNCHANGED << step, state, expectedErrs, vexplain, qr,
                  alreadyWrittenTraces, traceFile, autoVSchema >>
  /\ UNCHANGED << olap, analysisVars >>

\* a directive can be taken from the stream
More == pc = "loop" /\ step < MaxSteps

\* frame of a directive that only touches the mode state and the reporter
Advance ==
  /\ step' = step + 1
  /\ UNCHANGED << pc, ret, qr, autoVSchema, postProcessCalls,
                  postProcessEvents >>
  /\ UNCHANGED << olap, analysisVars >>

Skip ==
  /\ More
  /\ state' = skipNext(state)
  /\ last' = Last("Skip", <<"skip">>, Position(step), <<>>)
  /\ Advance
  /\ UNCHANGED << expectedErrs, vexplain, alreadyWrittenTraces, traceFile >>

SkipIfBelowVersion ==
  /\ More
  /\ \E strs \in GateTexts :
       /\ IF Len(strs) # 3
            THEN /\ state' = state
                 /\ last' = Last("SkipIfBelowVersion", strs, Position(step),
                                 <<AddFailure>>)
          ELSE IF ~Atoi(strs[3]).ok
            THEN /\ state' = state
                 /\ last' = Last("SkipIfBelowVersion", strs, Position(step),
                                 <<AddFailure>>)
          ELSE /\ state' = skipIfBelow(state, strs[2], Atoi(strs[3]).v)
               /\ last' = Last("SkipIfBelowVersion", strs, Position(step),
                               <<>>)
  /\ Advance
  /\ UNCHANGED << expectedErrs, vexplain, alreadyWrittenTraces, traceFile >>

Error ==
  /\ More
  /\ expectedErrs' = TRUE
  /\ last' = Last("Error", <<"error">>, Position(step), <<>>)
  /\ Advance
  /\ UNCHANGED << state, vexplain, alreadyWrittenTraces, traceFile >>

VExplain ==
  /\ More
  /\ \E strs \in VExplainTexts :
       IF Len(strs) # 2
         THEN /\ vexplain' = vexplain
              /\ last' = Last("VExplain", strs, Position(step), <<AddFailure>>)
         ELSE /\ vexplain' = strs[2]
              /\ last' = Last("VExplain", strs, Position(step), <<>>)
  /\ Advance
  /\ UNCHANGED << state, expectedErrs, alreadyWrittenTraces, traceFile >>

WaitForAuthoritative ==
  /\ More
  /\ \E strs \in WaitTexts, nKs \in 0..2, waitErr \in BOOLEAN :
       last' = Last("WaitForAuthoritative", strs, Position(step),
                    waitAuthoritative(strs, nKs, waitErr))
  /\ Advance
  /\ UNCHANGED << state, expectedErrs, vexplain, alreadyWrittenTraces,
                  traceFile >>

\* answers of the collaborators while the query directive with this text is
\* handled; an answer that the handling cannot ask for (the backend is out
\* of scope, the statement is skipped by the flag or does not parse, no
\* Tracer in the chain) is fixed
QueryEnvs(text) ==
  LET runs   == ~state.skip /\ Parse(text).ok
      traced == /\ runs /\ qr = "tracer" /\ ~state.mysqlOnly
                /\ ( \/ IsSelectStatement(Parse(text).ast)
                     \/ IsDMLStatement(Parse(text).ast) )
  IN [ vexplainErr : IF vexplain # "" THEN BOOLEAN ELSE {FALSE},
       installed   : IF state.skipBinary # "" THEN InstalledVersions ELSE {0},
       tgtErr      : IF runs /\ ~state.mysqlOnly THEN BOOLEAN ELSE {FALSE},
       refErr      : IF runs /\ ~state.vitessOnly THEN BOOLEAN ELSE {FALSE},
       diverge     : IF runs /\ ~state.mysqlOnly /\ ~state.vitessOnly
                       THEN BOOLEAN ELSE {FALSE},
       traceRes    : IF traced THEN {"ok", "exec", "indent", "write"}
                     ELSE {"ok"} ]

\* case typ.Query of Run: the explain step of a pending vexplain, then
\* runQuery.  A failed explain step reports the failure and then reads
\* result.Rows of a nil result, which panics.
Query ==
  /\ More
  /\ \E text \in Statements :
     \E env \in QueryEnvs(text) :
       LET q   == [Type |-> "Query", Query |-> text, Line |-> Position(step)]
           vex == IF vexplain = "" THEN <<>>
                  ELSE IF env.vexplainErr
                    THEN <<Ev("vt.vexplain", FALSE), AddFailure>>
                  ELSE <<Ev("vt.vexplain", TRUE), AddInfo>>
       IN IF vexplain # "" /\ env.vexplainErr
            THEN /\ Deferred("panic")
                 /\ last' = [ Last("Query", <<text>>, Position(step), <<>>)
                              EXCEPT !.vex = vex ]
                 /\ UNCHANGED << state, expectedErrs, alreadyWrittenTraces,
                                 traceFile, targetLog >>
            ELSE LET r == runQuery(q, state, expectedErrs, qr,
                                   alreadyWrittenTraces, traceFile, env)
                 IN /\ state' = r.st
                    /\ expectedErrs' = r.expectedErrs
                    /\ alreadyWrittenTraces' = r.awt
                    /\ traceFile' = r.file
                    /\ last' = [ Last("Query", <<text>>, Position(step),
                                      r.events)
                                 EXCEPT !.vex = vex,
                                        !.called = TRUE,
                                        !.installed = env.installed,
                                        !.diverged = r.diverged,
                                        !.skipped = r.skipped,
                                        !.skipReason = r.skipReason,
                                        !.dispatched = r.dispatched,
                                        !.cfg = r.cfg,
                                        !.expectErr = r.expectErr,
                                        !.err = r.err ]
                    /\ targetLog' = IF recording
                                      THEN targetLog
                                             \o Issued(q.Line, r.events)
                                    ELSE targetLog
                    /\ UNCHANGED << pc, ret, postProcessCalls,
                                    postProcessEvents >>
  /\ vexplain' = ""
  /\ step' = step + 1
  /\ UNCHANGED << qr, autoVSchema >>
  /\ UNCHANGED << olap, keysVars, txVars, recording >>

\* case typ.RemoveFile: a failed os.Remove makes Run return the error
RemoveFile ==
  /\ More
  /\ \E rmErr \in BOOLEAN :
       /\ last' = Last("RemoveFile", <<"remove_file", "f">>, Position(step),
                       <<Ev("os.Remove", ~rmErr)>>)
       /\ IF rmErr
            THEN Deferred("removeerr")
            ELSE UNCHANGED << pc, ret, postProcessCalls, postProcessEvents >>
  /\ step' = step + 1
  /\ UNCHANGED << state, expectedErrs, vexplain, qr, alreadyWrittenTraces,
                  traceFile, autoVSchema >>
  /\ UNCHANGED << olap, analysisVars >>

VitessOnly ==
  /\ More
  /\ \E strs \in ScopeTexts :
       LET r == vitessOrMySQLOnly(strs, state, "vitess")
       IN /\ state' = r.st
          /\ last' = [ Last("VitessOnly", strs, Position(step),
                            IF r.err # NoErr THEN <<AddFailure>> ELSE <<>>)
                       EXCEPT !.err = r.err ]
  /\ Advance
  /\ UNCHANGED << expectedErrs, vexplain, alreadyWrittenTraces, traceFile >>

MysqlOnly ==
  /\ More
  /\ \E strs \in ScopeTexts :
       LET r == vitessOrMySQLOnly(strs, state, "mysql")
       IN /\ state' = r.st
          /\ last' = [ Last("MysqlOnly", strs, Position(step),
                            IF r.err # NoErr THEN <<AddFailure>> ELSE <<>>)
                       EXCEPT !.err = r.err ]
  /\ Advance
  /\ UNCHANGED << expectedErrs, vexplain, alreadyWrittenTraces, traceFile >>

Reference ==
  /\ More
  /\ state' = referenceNext(state)
  /\ last' = Last("Reference", <<"reference">>, Position(step), <<>>)
  /\ Advance
  /\ UNCHANGED << expectedErrs, vexplain, alreadyWrittenTraces, traceFile >>

\* the default case that lets an unhandled kind pass without a report
Unsupported_Silent ==
  /\ More
  /\ \E type \in {"Comment", "CommentWithCommand", "EmptyLine", "Unknown"} :
       last' = Last(type, <<>>, Position(step), <<>>)
  /\ Advance
  /\ UNCHANGED << state, expectedErrs, vexplain, alreadyWrittenTraces,
                  traceFile >>

\* default case of the switch: a kind Run does not act on
Unsupported ==
  /\ More
  /\ \E type \in {"Comment", "CommentWithCommand", "EmptyLine", "Unknown"} :
       last' = Last(type, <<>>, Position(step), <<AddFailure>>)
  /\ Advance
  /\ UNCHANGED << state, expectedErrs, vexplain, alreadyWrittenTraces,
                  traceFile >>

\* end of the stream: print the report and return nil
Finish ==
  /\ pc = "loop"
  /\ Deferred("nil")
  /\ UNCHANGED << step, state, expectedErrs, vexplain, qr,
                  alreadyWrittenTraces, traceFile, autoVSchema, last >>
  /\ UNCHANGED << olap, analysisVars >>

\* TracerFactory.Close, called once Run has returned: the closing bracket
\* is written and the file closed; exitIf ends the process when the write
\* fails, and when the close fails
Close ==
  /\ pc = "end"
  /\ ret # "panic"
  /\ qr = "tracer"
  /\ \E writeErr \in BOOLEAN :
     \E closeErr \in (IF writeErr THEN {FALSE} ELSE BOOLEAN) :
       /\ traceFile' = IF writeErr THEN traceFile
                       ELSE traceFile \o <<Tok("]")>>
       /\ IF writeErr \/ closeErr
            THEN /\ pc' = "exited"
                 /\ ret' = "exit"
            ELSE /\ pc' = "closed"
                 /\ ret' = ret
  /\ UNCHANGED << step, state, expectedErrs, vexplain, qr,
                  alreadyWrittenTraces, autoVSchema, postProcessCalls,
                  postProcessEvents, last >>
  /\ UNCHANGED << olap, analysisVars >>

Next ==
  \/ Load
  \/ Skip
  \/ SkipIfBelowVersion
  \/ Error
  \/ VExplain
  \/ WaitForAuthoritative
  \/ Query
  \/ RemoveFile
  \/ VitessOnly
  \/ MysqlOnly
  \/ Reference
  \/ Unsupported
  \/ Finish
  \/ Close

Spec == Init /\ [][Next]_vars

\* the run loop with the executions on the target recorded, in a Tester
\* without auto-schema and olap mode, whose statements belong to no
\* directive
OrderInit ==
  /\ NewTester
  /\ autoVSchema = FALSE
  /\ olap = FALSE
  /\ recording = TRUE

OrderSpec == OrderInit /\ [][Next]_vars

\* ----------------------------------------------------------- properties
\* this step handled a query directive and runQuery was called for it
QueryHandled == step' = step + 1 /\ last'.Type = "Query" /\ last'.called

\* the statement's own executions: those of the comparing runner, or the
\* Tracer's executions of a data-modifying statement it handles itself
StatementExecs(evs) ==
  { i \in 1..Len(evs) :
      \/ evs[i].op \in {"vt.exec", "mysql.exec"}
      \/ evs[i].op = "vt.trace" /\ CountOp(evs, {"inner.runQuery"}) = 0 }

\* the statement was rejected by every backend it was executed on
StatementFailed(evs) ==
  /\ StatementExecs(evs) # {}
  /\ \A i \in StatementExecs(evs) : ~evs[i].ok

\* C1: after any sequence of directives the mode state never has vitessOnly
\* and mysqlOnly true at the same time.
C1_ScopesExclusive == ~(state.vitessOnly /\ state.mysqlOnly)

\* a mysql_only begin was attempted inside an open vitess_only scope
C1_Witness ==
  /\ last.Type = "MysqlOnly"
  /\ last.Query = <<"only", "begin">>
  /\ last.err # NoErr
  /\ state.vitessOnly

\* C2: a well-formed scope operation fails exactly on begin X with X open,
\* begin X with the other scope open, and end X with X not open; a failing
\* one changes no field of the mode state (nor expectedErrs, nor the pending
\* explain mode), reports exactly one failure, and the loop continues.
C2_ScopeErrors ==
  [][ ( /\ step' = step + 1
        /\ last'.Type \in {"VitessOnly", "MysqlOnly"}
        /\ Len(last'.Query) = 2
        /\ last'.Query[2] \in {"begin", "end"} )
      =>
      LET own   == IF last'.Type = "VitessOnly" THEN state.vitessOnly
                   ELSE state.mysqlOnly
          other == IF last'.Type = "VitessOnly" THEN state.mysqlOnly
                   ELSE state.vitessOnly
          fails == last'.err # NoErr
      IN /\ fails <=> IF last'.Query[2] = "begin" THEN own \/ other ELSE ~own
         /\ fails => /\ state' = state
                     /\ expectedErrs' = expectedErrs
                     /\ vexplain' = vexplain
                     /\ Failures(AllEvents(last')) = 1
                     /\ pc' = "loop"
                     /\ ret' = "none"
         /\ ~fails => Failures(AllEvents(last')) = 0
    ]_vars

\* a vitess_only begin failed inside an open mysql_only scope and the loop
\* is still running
C2_Witness ==
  /\ last.Type = "VitessOnly"
  /\ last.Query = <<"only", "begin">>
  /\ last.err # NoErr
  /\ Failures(AllEvents(last)) = 1
  /\ state.mysqlOnly
  /\ pc = "loop"

\* C3: a Skip directive issued outside any only-scope and with no pending
\* reference, immediately followed by a query directive, makes runQuery
\* return for that query without a test case and without a failure, with
\* the skip flag false afterwards; a query directive that directly follows
\* another query directive is never skipped by the skip flag.
C3_SkipThenQuery ==
  [][ /\ ( /\ last.Type = "Skip"
           /\ ~state.vitessOnly /\ ~state.mysqlOnly /\ ~state.reference
           /\ QueryHandled )
         => /\ last'.skipped
            /\ last'.skipReason = "skip"
            /\ CountOp(AllEvents(last'), {"AddTestCase"}) = 0
            /\ Failures(AllEvents(last')) = 0
            /\ ~state'.skip
      /\ ( /\ last.Type = "Query" /\ last.called
           /\ QueryHandled )
         => last'.skipReason # "skip"
    ]_vars

\* a query directive was skipped by the skip flag, which is false again
C3_Witness ==
  /\ last.Type = "Query"
  /\ last.skipped
  /\ last.skipReason = "skip"
  /\ AllEvents(last) = <<>>
  /\ ~state.skip

\* C4 (as claimed): with a version gate pending, the next query directive is
\* skipped iff the oracle reports the binary below the version, and the gate
\* is cleared by that query directive, also when a Skip flag is pending.
C4_GateClearedByNextQuery ==
  [][ (QueryHandled /\ state.skipBinary # "")
      => /\ last'.skipped <=> last'.installed < state.skipVersion
         /\ state'.skipBinary = ""
    ]_vars

\* C4 (amended): with a version gate pending and no Skip flag pending, the
\* next query directive is skipped iff the oracle reports the binary below
\* the version and the gate is cleared by it whatever its outcome; with a
\* Skip flag pending the query is skipped by the flag and the gate stays
\* pending, unchanged, for the following query directive.
C4_GateAmended ==
  [][ (QueryHandled /\ state.skipBinary # "")
      => IF state.skip
           THEN /\ last'.skipped
                /\ last'.skipReason = "skip"
                /\ state'.skipBinary = state.skipBinary
                /\ state'.skipVersion = state.skipVersion
           ELSE /\ last'.skipped <=> last'.installed < state.skipVersion
                /\ state'.skipBinary = ""
    ]_vars

\* a query directive was skipped by the version gate, which is cleared
C4_Witness ==
  /\ last.Type = "Query"
  /\ last.skipped
  /\ last.skipReason = "version"
  /\ last.installed < state.skipVersion
  /\ state.skipBinary = ""

\* C5: a dispatched query whose statement fails on the backends reports no
\* failure when it was preceded by an Error directive, and exactly one
\* failure when it was not, for every pipeline and statement kind.
C5_ExpectedErrorSwallowed ==
  (last.Type = "Query" /\ last.dispatched /\ StatementFailed(last.events))
  => Failures(AllEvents(last)) = IF last.expectErr THEN 0 ELSE 1

\* C6: once runQuery has returned for a query directive, expectedErrs is
\* false, whatever happened to that query.
C6_ExpectedErrsCleared ==
  (last.Type = "Query" /\ last.called) => ~expectedErrs

\* C7: once runQuery has returned for a query directive, the reference flag
\* is false, so a reference marker never outlives the first query directive
\* after it.
C7_ReferenceConsumed ==
  (last.Type = "Query" /\ last.called) => ~state.reference

\* C8: a query dispatched with reference set reports no failure when the
\* results diverge, the same divergence without reference reports a failure,
\* and a pending reference marker reaches the pipeline with the query
\* directive that follows it.
C8_ReferenceAcceptsDivergence ==
  [][ QueryHandled
      => /\ (last'.diverged /\ last'.cfg.reference)
              => Failures(AllEvents(last')) = 0
         /\ (last'.diverged /\ ~last'.cfg.reference /\ ~last'.expectErr)
              => Failures(AllEvents(last')) = 1
         /\ state.reference => (last'.dispatched /\ last'.cfg.reference)
         /\ last'.cfg.reference => state.reference
    ]_vars

\* C9: with the Tracer in the chain and the target in scope, a dispatched
\* data-modifying statement is executed on the target exactly once.
C9_DmlOnceOnTarget ==
  ( /\ last.Type = "Query" /\ last.dispatched
    /\ qr = "tracer"
    /\ last.cfg.vitess
    /\ IsDMLStatement(last.cfg.ast) )
  => CountOp(last.events, TargetOps) = 1

\* C10: for a SELECT with the target in scope the Tracer calls the inner
\* runner exactly once, performs exactly one trace capture if the inner
\* runner returned nil and none otherwise, and the capture comes after the
\* inner runner's executions.
C10_SelectTracedAfterInner ==
  ( /\ last.Type = "Query" /\ last.dispatched
    /\ qr = "tracer"
    /\ last.cfg.vitess
    /\ IsSelectStatement(last.cfg.ast) )
  => LET evs == last.events
         idx == 1..Len(evs)
     IN /\ CountOp(evs, {"inner.runQuery"}) = 1
        /\ \A i \in idx :
             evs[i].op = "inner.runQuery"
               => CountOp(evs, {"vt.trace"}) = IF evs[i].ok THEN 1 ELSE 0
        /\ \A i, j \in idx :
             ( /\ evs[i].op = "vt.trace"
               /\ evs[j].op \in {"inner.runQuery", "vt.exec", "mysql.exec"} )
             => j < i

\* a traced SELECT: the inner runner ran on both backends, then one capture
C10_Witness ==
  /\ last.Type = "Query" /\ last.dispatched
  /\ qr = "tracer"
  /\ last.cfg.ast = "select"
  /\ last.cfg.vitess /\ last.cfg.mysql
  /\ CountOp(last.events, {"vt.exec"}) = 1
  /\ CountOp(last.events, {"vt.trace"}) = 1
  /\ last.err = NoErr

\* ------------------------------------------------- trace file properties
\* the entries of the file, in file order
Entries(file) == SelectSeq(file, LAMBDA t : t.tok = "entry")

\* '[' e1 ',' e2 ... ']'
IsArray(file) ==
  /\ Len(file) >= 2
  /\ file[1] = Tok("[")
  /\ file[Len(file)] = Tok("]")
  /\ (Len(file) = 2 \/ Len(file) % 2 = 1)
  /\ \A i \in 2..(Len(file) - 1) :
       file[i].tok = IF i % 2 = 0 THEN "entry" ELSE ","

\* a is a prefix of b
IsPrefix(a, b) ==
  /\ Len(a) <= Len(b)
  /\ \A i \in 1..Len(a) : a[i] = b[i]

\* the handling recorded in l made a successful trace capture
Captured(l) == CountOp(l.events, {"file.write"}) = 1
               /\ \A i \in 1..Len(l.events) :
                    l.events[i].op = "file.write" => l.events[i].ok

\* a trace capture of the handling recorded in l failed
CaptureFailed(l) ==
  \E i \in 1..Len(l.events) :
    /\ l.events[i].op \in {"vt.trace", "json.Indent", "file.write"}
    /\ ~l.events[i].ok

\* C11: once Close has appended the closing bracket the trace file is a
\* single array '[' e1 ',' e2 ... ']'; every successful trace capture adds
\* exactly one element with the Query text and LineNumber of its query (so
\* the elements are in script order), and nothing else adds an element.
C11_ClosedFileIsArray ==
  /\ [](pc = "closed" => IsArray(traceFile))
  /\ [][ Entries(traceFile') =
           Entries(traceFile)
             \o (IF step' = step + 1 /\ Captured(last')
                   THEN <<[tok |-> "entry", Query |-> last'.Query[1],
                           LineNumber |-> last'.Line]>>
                   ELSE <<>>)
       ]_vars

\* C12: an entry in the trace file is preceded by a comma if and only if an
\* entry was written before it; no comma directly follows the opening
\* bracket and no two commas are adjacent.
C12_CommaIffEarlierEntry ==
  \A i \in 1..Len(traceFile) :
    /\ traceFile[i].tok = "entry"
         => ( (i > 1 /\ traceFile[i - 1].tok = ",")
              <=> \E j \in 1..(i - 1) : traceFile[j].tok = "entry" )
    /\ (traceFile[i].tok = "," /\ i > 1)
         => traceFile[i - 1].tok \notin {"[", ","}

\* C13: the trace file is append-only: after every step its content extends
\* its content before the step.
C13_AppendOnly == [][ IsPrefix(traceFile, traceFile') ]_vars

\* the file holds two entries and the closing bracket
C13_Witness ==
  /\ pc = "closed"
  /\ Len(Entries(traceFile)) = 2
  /\ traceFile[Len(traceFile)] = Tok("]")

\* the handling recorded in l went to the query runner
Dispatched(l) == l.Type = "Query" /\ l.called /\ l.dispatched

\* the runner took the Tracer's direct path: it never called the inner runner
DirectPath(l) ==
  /\ Dispatched(l)
  /\ qr = "tracer"
  /\ CountOp(l.events, {"inner.runQuery"}) = 0

\* some event with an op of ops failed in evs
FailedOp(evs, ops) ==
  \E i \in 1..Len(evs) : evs[i].op \in ops /\ ~evs[i].ok

\* C14: a trace capture that fails (at the explain-trace statement, at the
\* indentation or at the file write) makes Tracer.runQuery return a non-nil
\* error, and the run loop reports it as one failure.
C14_CaptureFailureReported ==
  (Dispatched(last) /\ CaptureFailed(last))
    => (last.err # NoErr /\ Failures(last.events) = 1)

\* a capture failed at the file write, after the inner runner succeeded
C14_Witness ==
  /\ Dispatched(last)
  /\ CountOp(last.events, {"inner.runQuery"}) = 1
  /\ FailedOp(last.events, {"file.write"})
  /\ Failures(last.events) = 1

\* C15: on the direct path the returned error is nil if and only if the
\* target trace and the reference execution both succeeded, and whatever
\* the number of failed attempts the run loop reports at most one failure.
C15_DirectPathAggregates ==
  DirectPath(last)
    => /\ last.err = NoErr
            <=> ( ~CaptureFailed(last)
                  /\ ~FailedOp(last.events, ReferenceConnOps) )
       /\ Failures(last.events) = (IF last.err = NoErr THEN 0 ELSE 1)

\* both attempts of a direct-path statement failed and one failure was
\* reported
C15_Witness ==
  /\ DirectPath(last)
  /\ CaptureFailed(last)
  /\ FailedOp(last.events, ReferenceConnOps)
  /\ Failures(last.events) = 1

\* ---------------------------------------------------- run loop properties
\* C16: the handling of one query directive, the explain step of a pending
\* VExplain included, adds at most one failure to the reporter.
C16_AtMostOneFailure ==
  last.Type = "Query" => Failures(AllEvents(last)) <= 1

\* a query with a pending VExplain whose explain step succeeded and whose
\* statement was then reported as a failure
C16_Witness ==
  /\ last.Type = "Query"
  /\ last.called
  /\ CountOp(last.vex, {"vt.vexplain"}) = 1
  /\ Failures(last.events) = 1

\* the kinds the run loop does not act on
UnhandledTypes == {"Comment", "CommentWithCommand", "EmptyLine", "Unknown"}

\* C17: a directive of a kind the run loop does not act on adds exactly one
\* failure, leaves the mode state, expectedErrs and vexplain as they were,
\* and the loop goes on.
C17_UnhandledKind ==
  [][ (step' = step + 1 /\ last'.Type \in UnhandledTypes)
        => /\ Failures(AllEvents(last')) = 1
           /\ Len(AllEvents(last')) = 1
           /\ state' = state
           /\ expectedErrs' = expectedErrs
           /\ vexplain' = vexplain
           /\ pc' = "loop"
           /\ ret' = "none"
    ]_vars

\* an unhandled directive met while Skip, Error and VExplain are pending
C17_Witness ==
  /\ last.Type \in UnhandledTypes
  /\ Failures(last.events) = 1
  /\ pc = "loop"
  /\ (state.skip \/ expectedErrs \/ vexplain # "")

\* C18: once the stream is loaded, Run ends only at the end of the stream,
\* returning nil: no error met while handling one directive makes Run end
\* in another way.
C18_RunReturnsNil ==
  (pc \in {"end", "closed"} /\ ret # "loaderr") => ret = "nil"

\* C19: for a skipped query directive nothing is done: no reporter call and
\* no statement on either backend, the explain step included.
C19_SkippedQueryDoesNothing ==
  (last.Type = "Query" /\ last.skipped) => AllEvents(last) = <<>>

\* C20: a query directive handled inside a mysql_only scope issues nothing
\* on the target connection, one handled inside a vitess_only scope issues
\* nothing on the reference connection, and a query that reaches the runner
\* inside a scope is executed on the scope's backend.
C20_OnlyScopeOneBackend ==
  last.Type = "Query"
    => /\ state.mysqlOnly
            => /\ CountOp(AllEvents(last), TargetConnOps) = 0
               /\ Dispatched(last)
                    => CountOp(last.events, ReferenceConnOps) >= 1
       /\ state.vitessOnly
            => /\ CountOp(AllEvents(last), ReferenceConnOps) = 0
               /\ Dispatched(last)
                    => CountOp(last.events, TargetConnOps) >= 1

\* ------------------------------------------------- ordering properties
\* C21: target executions follow script order.  Of two executions made on
\* the target, by the inner runner or by the trace capture, for query
\* directives at different lines, the one for the earlier line is made
\* first: every execution for a directive comes before every execution
\* for a directive later in the script.
C21_TargetOrder ==
  \A i, j \in 1..Len(targetLog) :
    targetLog[i].line < targetLog[j].line => i < j

\* a query was executed by the inner runner and then traced on the target,
\* and a later query was executed on the target after both
C21_Witness ==
  /\ Len(targetLog) >= 3
  /\ targetLog[1] = [line |-> 1, op |-> "vt.exec"]
  /\ targetLog[2] = [line |-> 1, op |-> "vt.trace"]
  /\ targetLog[3].line > 1

\* ------------------------------------------------ mode state properties
\* the argument list of a control directive is malformed
MalformedControl(type, strs) ==
  \/ /\ type = "SkipIfBelowVersion"
     /\ (Len(strs) # 3 \/ ~Atoi(strs[Len(strs)]).ok)
  \/ /\ type = "VExplain"
     /\ Len(strs) # 2
  \/ /\ type \in {"VitessOnly", "MysqlOnly"}
     /\ (Len(strs) # 2 \/ strs[Len(strs)] \notin {"begin", "end"})

\* C22: a control directive with a malformed argument list adds exactly one
\* failure, leaves the mode state and vexplain as they were, and the loop
\* goes on.
C22_MalformedControl ==
  [][ (step' = step + 1 /\ MalformedControl(last'.Type, last'.Query))
        => /\ AllEvents(last') = <<AddFailure>>
           /\ state' = state
           /\ vexplain' = vexplain
           /\ expectedErrs' = expectedErrs
           /\ pc' = "loop"
           /\ ret' = "none"
    ]_vars

\* a scope directive with a word that is neither begin nor end, met inside
\* the scope it names
C22_Witness ==
  /\ last.Type = "MysqlOnly"
  /\ last.Query = <<"only", "stop">>
  /\ state.mysqlOnly
  /\ Failures(last.events) = 1
  /\ pc = "loop"

\* C23: a Skip directive sets skip when vitessOnly, mysqlOnly and reference
\* are all false and changes no other field; when one of them is true it
\* changes nothing, so a query that follows it with no other skip pending
\* is not skipped.
C23_SkipNextFrame ==
  [][ /\ (step' = step + 1 /\ last'.Type = "Skip")
        => state' = IF state.vitessOnly \/ state.mysqlOnly \/ state.reference
                      THEN state
                      ELSE [state EXCEPT !.skip = TRUE]
      /\ ( /\ QueryHandled
           /\ last.Type = "Skip"
           /\ (state.vitessOnly \/ state.mysqlOnly \/ state.reference)
           /\ ~state.skip
           /\ state.skipBinary = "" )
        => ~last'.skipped
    ]_vars

\* a Skip directive met inside an only-scope left skip unset
C23_Witness ==
  /\ last.Type = "Skip"
  /\ (state.vitessOnly \/ state.mysqlOnly)
  /\ ~state.skip

\* C24 as stated: a Reference directive sets reference only when no
\* only-scope is active and neither a Skip flag nor a version gate is
\* pending, and otherwise changes nothing.
C24_ReferenceUnlessSkipOrGate ==
  [][ (step' = step + 1 /\ last'.Type = "Reference")
        => state' = IF \/ state.vitessOnly \/ state.mysqlOnly
                       \/ state.skip \/ state.skipBinary # ""
                      THEN state
                      ELSE [state EXCEPT !.reference = TRUE]
    ]_vars

\* C24 amended: a Reference directive sets reference, and nothing else,
\* when no only-scope is active and no Skip flag is pending, whether or not
\* a version gate is pending; otherwise it changes nothing.
C24_ReferenceUnlessSkip ==
  [][ (step' = step + 1 /\ last'.Type = "Reference")
        => state' = IF state.vitessOnly \/ state.mysqlOnly \/ state.skip
                      THEN state
                      ELSE [state EXCEPT !.reference = TRUE]
    ]_vars

\* a Reference directive set the flag while a version gate was pending
C24_Witness ==
  /\ last.Type = "Reference"
  /\ state.reference
  /\ state.skipBinary # ""

\* C25: shouldSkip looks at the skip flag first: when it is set the query
\* is skipped, the flag is cleared, the answer does not depend on the
\* installed version and the gate stays as it was; when only the gate is
\* set it is cleared and the query is skipped exactly when the installed
\* version is below the gate's; with neither set the query is not skipped
\* and nothing changes.
C25_ShouldSkipPrecedence ==
  [][ QueryHandled
        => IF state.skip
             THEN /\ last'.skipped
                  /\ last'.skipReason = "skip"
                  /\ ~state'.skip
                  /\ state'.skipBinary = state.skipBinary
                  /\ state'.skipVersion = state.skipVersion
                  /\ \A v, w \in InstalledVersions :
                       shouldSkip(state, v) = shouldSkip(state, w)
           ELSE IF state.skipBinary # ""
             THEN /\ last'.skipReason = "version"
                  /\ last'.skipped <=> last'.installed < state.skipVersion
                  /\ state'.skipBinary = ""
                  /\ ~state'.skip
           ELSE /\ ~last'.skipped
                /\ last'.skipReason = "none"
                /\ shouldSkip(state, last'.installed).st = state
    ]_vars

\* a query skipped by the flag while the gate stays pending
C25_Witness ==
  /\ last.Type = "Query"
  /\ last.called
  /\ last.skipped
  /\ last.skipReason = "skip"
  /\ state.skipBinary # ""
  /\ ~state.skip

\* C26: shouldReference returns the value of reference and leaves it
\* false, changing no other field; a second call right after it returns
\* false, so of two queries dispatched one after the other the second is
\* not a reference capture.
C26_ShouldReferenceReadAndClear ==
  [][ (QueryHandled /\ last'.dispatched)
        => LET r1 == shouldReference(state)
               r2 == shouldReference(r1.st)
           IN /\ r1.ret = state.reference
              /\ r1.st = [state EXCEPT !.reference = FALSE]
              /\ ~r2.ret
              /\ r2.st = r1.st
              /\ last'.cfg.reference = state.reference
              /\ ~state'.reference
              /\ state'.vitessOnly = state.vitessOnly
              /\ state'.mysqlOnly = state.mysqlOnly
              /\ (last.Type = "Query" /\ last.dispatched)
                   => ~last'.cfg.reference
    ]_vars

\* a query dispatched as a reference capture, after which the flag is clear
C26_Witness ==
  /\ Dispatched(last)
  /\ last.cfg.reference
  /\ ~state.reference

\* C27: the request of a dispatched query has vitess = ~mysqlOnly,
\* mysql = ~vitessOnly and reference = the reference flag, all read from
\* the mode state the query met, and at least one backend in scope.
C27_ExecutionRequest ==
  [][ (QueryHandled /\ last'.dispatched)
        => /\ last'.cfg.vitess = ~state.mysqlOnly
           /\ last'.cfg.mysql = ~state.vitessOnly
           /\ last'.cfg.reference = state.reference
           /\ (last'.cfg.vitess \/ last'.cfg.mysql)
    ]_vars

\* a query dispatched inside a mysql_only scope, for the reference alone
C27_Witness ==
  /\ Dispatched(last)
  /\ state.mysqlOnly
  /\ ~last.cfg.vitess
  /\ last.cfg.mysql

\* ------------------------------------------------- Tracer path properties
\* answers of the collaborators used to evaluate Tracer.runQuery on its own
TracerEnvs ==
  [ vexplainErr : {FALSE}, installed : {0}, tgtErr : BOOLEAN,
    refErr : BOOLEAN, diverge : {FALSE}, traceRes : {"ok", "exec"} ]

\* the error causes that only Tracer.trace produces
TraceCauses == {"vexplain trace failed", "indent failed", "write failed"}

\* position-wise: every op of first in evs comes before every op of then
Before(evs, first, then) ==
  \A i, j \in 1..Len(evs) :
    (evs[i].op \in first /\ evs[j].op \in then) => i < j

\* C28: the Tracer takes its direct path exactly when the statement is
\* data-modifying, the trace file is open, no error is expected and the
\* target is in scope; on the direct path the inner runner is not called,
\* on every other path it is called exactly once.
C28_DirectPathIff ==
  (Dispatched(last) /\ qr = "tracer")
    => LET direct == /\ IsDMLStatement(last.cfg.ast)
                     /\ ~last.expectErr
                     /\ last.cfg.vitess
           q == [Type |-> "Query", Query |-> last.Query[1],
                 Line |-> last.Line]
       IN /\ CountOp(last.events, {"inner.runQuery"})
               = (IF direct THEN 0 ELSE 1)
          /\ direct => /\ CountOp(last.events, {"vt.trace"}) = 1
                       /\ CountOp(last.events, {"vt.exec"}) = 0
          /\ \A env \in TracerEnvs :
               CountOp(TracerRunQuery(q, last.expectErr, last.cfg,
                                      alreadyWrittenTraces, traceFile,
                                      FALSE, env).events,
                       {"inner.runQuery"}) = 1

\* a data-modifying statement with an expected error went to the inner
\* runner
C28_Witness ==
  /\ Dispatched(last)
  /\ qr = "tracer"
  /\ IsDMLStatement(last.cfg.ast)
  /\ last.expectErr
  /\ last.cfg.vitess
  /\ CountOp(last.events, {"inner.runQuery"}) = 1

\* C29: on the delegating path an error of the inner runner is returned as
\* it is, with no trace capture and nothing appended to the trace file; a
\* statement that is neither a selection nor data-modifying, or a target
\* out of scope, gets no trace capture either and the inner runner's result
\* is the result.
C29_DelegatingPath ==
  [][ ( /\ QueryHandled
        /\ last'.dispatched
        /\ qr = "tracer"
        /\ CountOp(last'.events, {"inner.runQuery"}) = 1 )
        => LET innerFailed == FailedOp(last'.events, {"inner.runQuery"})
               untraced ==
                 \/ ~last'.cfg.vitess
                 \/ ~( \/ IsSelectStatement(last'.cfg.ast)
                       \/ IsDMLStatement(last'.cfg.ast) )
           IN /\ innerFailed
                   => /\ last'.err # NoErr
                      /\ \A i \in 1..Len(last'.err) :
                           last'.err[i] \notin TraceCauses
              /\ (innerFailed \/ untraced)
                   => /\ CountOp(last'.events,
                                 {"vt.trace", "json.Indent", "file.write"}) = 0
                      /\ traceFile' = traceFile
                      /\ alreadyWrittenTraces' = alreadyWrittenTraces
                      /\ (last'.err = NoErr) <=> ~innerFailed
    ]_vars

\* the inner runner failed on a selection with the target in scope, and
\* nothing was traced
C29_Witness ==
  /\ Dispatched(last)
  /\ qr = "tracer"
  /\ IsSelectStatement(last.cfg.ast)
  /\ last.cfg.vitess
  /\ FailedOp(last.events, {"inner.runQuery"})
  /\ CountOp(last.events, {"vt.trace"}) = 0
  /\ Failures(last.events) = 1

\* C30: on the direct path the statement is executed on the reference
\* exactly once when the reference is in scope, also after a failed trace,
\* and never when it is not in scope; the target attempt comes first.
C30_DirectPathReference ==
  DirectPath(last)
    => /\ CountOp(last.events, ReferenceConnOps)
            = (IF last.cfg.mysql THEN 1 ELSE 0)
       /\ CountOp(last.events, TargetConnOps) = 1
       /\ Before(last.events, TargetConnOps, ReferenceConnOps)

\* the trace failed on the target and the reference was executed after it
C30_Witness ==
  /\ DirectPath(last)
  /\ FailedOp(last.events, {"vt.trace"})
  /\ CountOp(last.events, ReferenceConnOps) = 1
  /\ ~FailedOp(last.events, ReferenceConnOps)

\* ------------------------------------------------- run loop, continued
\* C31: a pending VExplain is one-shot: the query directive that follows
\* issues the explain statement once on the target and vexplain is empty
\* afterwards; a successful explain step reports an info, a failed one
\* reports a failure, and in both cases Run does not crash and runQuery is
\* called for the query.
C31_ExplainOneShot ==
  /\ last.Type = "Query" => vexplain = ""
  /\ (last.Type = "Query" /\ last.vex # <<>>)
       => /\ CountOp(last.vex, {"vt.vexplain"}) = 1
          /\ last.vex[1].op = "vt.vexplain"
          /\ IF last.vex[1].ok
               THEN last.vex = <<Ev("vt.vexplain", TRUE), AddInfo>>
               ELSE Failures(last.vex) = 1
          /\ ret # "panic"
          /\ last.called

\* C32: a WaitForAuthoritative directive with a wrong argument count, or
\* with a table that findTable does not resolve to one keyspace, adds
\* exactly one failure and waits for nothing, and the loop goes on.
C32_WaitNotPerformed ==
  last.Type = "WaitForAuthoritative"
    => /\ pc = "loop" \/ (pc \in {"end", "closed"} /\ ret = "nil")
       /\ Len(last.Query) \notin {2, 3} => last.events = <<AddFailure>>
       /\ Len(last.Query) = 2
            => \A nKs \in {0, 2}, waitErr \in BOOLEAN :
                 waitAuthoritative(last.Query, nKs, waitErr) = <<AddFailure>>

\* C33: postProcess has been called exactly once when Run has returned in
\* auto-schema mode, whichever way Run returned; it is never called twice,
\* never before Run leaves the loop and never when the mode is inactive.
C33_PostProcessOnce ==
  /\ pc \in {"end", "closed"}
       => postProcessCalls = (IF autoVSchema THEN 1 ELSE 0)
  /\ pc \in {"start", "loop"} => postProcessCalls = 0
  /\ ~autoVSchema => postProcessCalls = 0 /\ postProcessEvents = <<>>
  /\ postProcessCalls <= 1

\* Run returned early from a RemoveFile directive and the teardown ran
C33_Witness ==
  /\ pc = "end"
  /\ ret = "removeerr"
  /\ autoVSchema
  /\ postProcessCalls = 1
  /\ postProcessEvents[Len(postProcessEvents)] = Ev("curr.Close", TRUE)

\* C34: when the load fails Run adds exactly one failure, returns the
\* error, and handles no directive: no step is taken, nothing is done
\* beyond the workload statement of preProcess and the failure, no runner
\* is called and the trace file gets no entry.
C34_LoadFailure ==
  [][ (pc = "start" /\ Failures(last'.events) >= 1)
        => /\ pc' = "end"
           /\ ret' = "loaderr"
           /\ step' = 0
           /\ last' = Last("none", <<>>, 0,
                           (IF olap THEN <<Ev("vt.setWorkload", TRUE)>>
                            ELSE <<>>) \o <<AddFailure>>)
           /\ Failures(last'.events) = 1
           /\ CountOp(last'.events, {"inner.runQuery", "vt.exec", "vt.trace",
                                     "vt.vexplain", "mysql.exec"}) = 0
           /\ state' = InitState
           /\ Entries(traceFile') = <<>>
    ]_vars

\* C35: skip and reference are never both set.
C35_SkipReferenceExclusive == ~(state.skip /\ state.reference)

\* a Skip directive met a pending reference and left skip unset
C35_Witness ==
  /\ last.Type = "Skip"
  /\ state.reference
  /\ ~state.skip

\* C36: a query dispatched as a reference capture has both backends in
\* scope.
C36_ReferenceNeedsBothBackends ==
  (Dispatched(last) /\ last.cfg.reference)
    => (last.cfg.vitess /\ last.cfg.mysql)

\* C37: on the reporter the events of a query directive are bracketed: an
\* AddTestCase is matched by one EndTestCase that closes the handling, and
\* every failure of the directive lies between the two.
C37_TestCaseBracketed ==
  (last.Type = "Query" /\ Len(AllEvents(last)) > 0)
    => LET evs == AllEvents(last)
       IN /\ CountOp(evs, {"AddTestCase"}) = CountOp(evs, {"EndTestCase"})
          /\ CountOp(evs, {"AddTestCase"}) <= 1
          /\ \A i \in 1..Len(evs) :
               evs[i] = AddFailure
                 => /\ \E j \in 1..(i - 1) : evs[j] = AddTestCase
                    /\ \E j \in (i + 1)..Len(evs) : evs[j] = EndTestCase

\* ------------------------------------------------------- keys analysis
\* keys.run: the loop over the loaded directives that gives the query
\* directives to process, and the output written at the end.
MaxKeysLen == 4

\* kinds that set skip
KeysSuppressors == {"Skip", "Error", "VExplain"}
\* kinds of the no-op case
KeysListedNoops == {"Comment", "WaitForAuthoritative", "SkipIfBelowVersion"}
\* kinds for which the switch has no case
KeysUncased == {"Reference", "RemoveFile"}

KeysInit ==
  /\ Init
  /\ qr = "comparing"
  /\ autoVSchema = FALSE
  /\ olap = FALSE

\* the variables keys.run never touches
testerVars ==
  << pc, ret, step, state, expectedErrs, vexplain, qr, alreadyWrittenTraces,
     traceFile, autoVSchema, olap, postProcessCalls, postProcessEvents,
     last, orderVars >>

\* data.LoadQueries at the start of run
KeysLoad ==
  /\ keysPc = "start"
  /\ \E loadErr \in BOOLEAN :
       IF loadErr
         THEN keysPc' = "done" /\ keysRet' = "loaderr"
         ELSE keysPc' = "loop" /\ keysRet' = keysRet
  /\ UNCHANGED << keysSkip, keysStream, keysProcessed, keysOut >>
  /\ UNCHANGED << testerVars, txVars >>

KeysMore == keysPc = "loop" /\ Len(keysStream) < MaxKeysLen

\* case typ.Skip, typ.Error, typ.VExplain
KeysCaseSkip ==
  /\ KeysMore
  /\ \E type \in KeysSuppressors : keysStream' = Append(keysStream, type)
  /\ keysSkip' = TRUE
  /\ UNCHANGED << keysPc, keysRet, keysProcessed, keysOut >>
  /\ UNCHANGED << testerVars, txVars >>

\* case typ.Unknown: run returns an error
KeysCaseUnknown ==
  /\ KeysMore
  /\ keysStream' = Append(keysStream, "Unknown")
  /\ keysPc' = "done"
  /\ keysRet' = "unknownerr"
  /\ UNCHANGED << keysSkip, keysProcessed, keysOut >>
  /\ UNCHANGED << testerVars, txVars >>

\* the no-op case, and the kinds that match no case
KeysCaseNoop ==
  /\ KeysMore
  /\ \E type \in KeysListedNoops \cup KeysUncased :
       keysStream' = Append(keysStream, type)
  /\ UNCHANGED << keysPc, keysRet, keysSkip, keysProcessed, keysOut >>
  /\ UNCHANGED << testerVars, txVars >>

\* case typ.Query that leaves skip set when it suppresses the query
KeysCaseQuery_KeepsSkip ==
  /\ KeysMore
  /\ keysStream' = Append(keysStream, "Query")
  /\ IF keysSkip
       THEN UNCHANGED << keysSkip, keysProcessed >>
       ELSE /\ keysProcessed' = Append(keysProcessed, Len(keysStream) + 1)
            /\ keysSkip' = keysSkip
  /\ UNCHANGED << keysPc, keysRet, keysOut >>
  /\ UNCHANGED << testerVars, txVars >>

\* case typ.Query: the query is dropped when skip is set, else processed
KeysCaseQuery ==
  /\ KeysMore
  /\ keysStream' = Append(keysStream, "Query")
  /\ IF keysSkip
       THEN /\ keysSkip' = FALSE
            /\ keysProcessed' = keysProcessed
       ELSE /\ keysProcessed' = Append(keysProcessed, Len(keysStream) + 1)
            /\ keysSkip' = keysSkip
  /\ UNCHANGED << keysPc, keysRet, keysOut >>
  /\ UNCHANGED << testerVars, txVars >>

\* end of the stream: ql.writeJSONTo(out); a failed MarshalIndent writes
\* nothing, a failed Write may have written a part
KeysWriteJSON ==
  /\ keysPc = "loop"
  /\ keysPc' = "done"
  /\ \E writeErr \in BOOLEAN :
       IF writeErr
         THEN keysRet' = "writeerr" /\ keysOut' \in BOOLEAN
         ELSE keysRet' = "nil" /\ keysOut' = TRUE
  /\ UNCHANGED << keysSkip, keysStream, keysProcessed >>
  /\ UNCHANGED << testerVars, txVars >>

KeysNext ==
  \/ KeysLoad
  \/ KeysCaseSkip
  \/ KeysCaseUnknown
  \/ KeysCaseNoop
  \/ KeysCaseQuery
  \/ KeysWriteJSON

KeysSpec == KeysInit /\ [][KeysNext]_vars

\* a Skip, Error or VExplain directive stands between the previous query
\* directive (or the start) and position i
KeysSuppressed(i) ==
  \E j \in 1..(i - 1) :
    /\ keysStream[j] \in KeysSuppressors
    /\ \A k \in (j + 1)..(i - 1) : keysStream[k] # "Query"

\* C38: a query directive is given to process exactly when no Skip, Error
\* or VExplain directive occurred since the previous query directive, each
\* at most once and nothing but query directives; an Unknown directive is
\* the last one handled, run returns its error and no output is written.
C38_KeysSkipNextQuery ==
  /\ \A i \in 1..Len(keysStream) :
       keysStream[i] = "Query"
         => ( (\E n \in 1..Len(keysProcessed) : keysProcessed[n] = i)
              <=> ~KeysSuppressed(i) )
  /\ \A n \in 1..Len(keysProcessed) :
       /\ keysProcessed[n] \in 1..Len(keysStream)
       /\ keysStream[keysProcessed[n]] = "Query"
       /\ \A m \in 1..(n - 1) : keysProcessed[m] < keysProcessed[n]
  /\ \A i \in 1..Len(keysStream) :
       keysStream[i] = "Unknown"
         => /\ i = Len(keysStream)
            /\ keysPc = "done"
            /\ keysRet = "unknownerr"
            /\ ~keysOut

\* two suppressing directives in a row dropped the query after them and
\* not the one after that
C38_Witness ==
  /\ keysStream = <<"Skip", "Error", "Query", "Query">>
  /\ keysProcessed = <<4>>

\* ------------------------------------------- transaction signature map
\* txSignatureMap: signatures are bucketed by Hash64 and counted by Add.
MaxAdds == 4

TxQuery(op, table, cols, preds) ==
  [Op |-> op, AffectedTable |-> table, UpdatedColumns |-> cols,
   Predicates |-> preds]

predicateInfo(table, col, op, val) ==
  [Table |-> table, Col |-> col, Op |-> op, Val |-> val]

\* Queries of the signatures given to Add.  SigOneQuery and SigTwoQueries
\* differ and write the same bytes to the hasher; the other two differ in
\* the value of their predicate only.
SigOneQuery == << TxQuery("update", "t", <<"delete", "u">>, <<>>) >>
SigTwoQueries ==
  << TxQuery("update", "t", <<>>, <<>>), TxQuery("delete", "u", <<>>, <<>>) >>
SigPredOne ==
  << TxQuery("update", "t", <<"a">>, <<predicateInfo("t", "id", "=", 1)>>) >>
SigPredAny ==
  << TxQuery("update", "t", <<"a">>, <<predicateInfo("t", "id", "=", -1)>>) >>

TxSignatures == {SigOneQuery, SigTwoQueries, SigPredOne, SigPredAny}

\* strconv.Itoa on the values used here
Itoa(v) == IF v = 1 THEN "1" ELSE IF v = -1 THEN "-1" ELSE "0"

\* predicateInfo.String, as the pieces of the formatted text
PredString(pi) ==
  << pi.Table, ".", pi.Col, " ", pi.Op, " ",
     IF pi.Val = -1 THEN "?" ELSE Itoa(pi.Val) >>

\* TxQuery.addToHash: every field is written followed by a zero byte; the
\* hasher state is the list of the zero-terminated pieces written so far
addToHash(hash, tx) ==
  hash \o << <<tx.Op>>, <<tx.AffectedTable>> >>
       \o [i \in 1..Len(tx.UpdatedColumns) |-> <<tx.UpdatedColumns[i]>>]
       \o [i \in 1..Len(tx.Predicates) |-> PredString(tx.Predicates[i])]

RECURSIVE HashQueries(_, _)
HashQueries(hash, queries) ==
  IF queries = <<>> THEN hash
  ELSE HashQueries(addToHash(hash, Head(queries)), Tail(queries))

\* TxSignature.Hash64: FNV-1a over the bytes written, which is the same for
\* the same bytes; the sum is represented by the bytes themselves
Hash64(tx) == HashQueries(<<>>, tx.Queries)

\* TxQuery.Equals
TxQueryEquals(tx, other) ==
  /\ tx.Op = other.Op
  /\ tx.AffectedTable = other.AffectedTable
  /\ Len(tx.UpdatedColumns) = Len(other.UpdatedColumns)
  /\ \A i \in 1..Len(tx.UpdatedColumns) :
       tx.UpdatedColumns[i] = other.UpdatedColumns[i]
  /\ Len(tx.Predicates) = Len(other.Predicates)
  /\ \A i \in 1..Len(tx.Predicates) : tx.Predicates[i] = other.Predicates[i]

\* TxSignature.Equals
Equals(tx, other) ==
  /\ Len(tx.Queries) = Len(other.Queries)
  /\ \A i \in 1..Len(tx.Queries) :
       TxQueryEquals(tx.Queries[i], other.Queries[i])

\* txSignatureMap.Add: the new value of data
Add(data, tx) ==
  LET hash == Hash64(tx)
  IN IF hash \notin DOMAIN data
       THEN [h \in DOMAIN data \cup {hash} |->
               IF h = hash THEN <<[tx EXCEPT !.Count = 1]>> ELSE data[h]]
     ELSE LET bucket  == data[hash]
              matches == {i \in 1..Len(bucket) : Equals(tx, bucket[i])}
          IN IF matches # {}
               THEN LET i == CHOOSE m \in matches :
                               \A o \in matches : m <= o
                    IN [data EXCEPT ![hash][i].Count = @ + 1]
             ELSE [data EXCEPT ![hash] = Append(bucket, tx)]

TxInit == KeysInit

\* one call of Add with a new signature object, whose Count is the zero
\* value
TxAdd ==
  /\ Len(txAdds) < MaxAdds
  /\ \E queries \in TxSignatures :
       /\ txData' = Add(txData, [Count |-> 0, Queries |-> queries])
       /\ txAdds' = Append(txAdds, queries)
  /\ UNCHANGED << testerVars, keysVars >>

TxNext == TxAdd

TxSpec == TxInit /\ [][TxNext]_vars

\* the stored signatures, as <<hash, position in the bucket>>
TxStored ==
  {e \in (DOMAIN txData) \X (1..MaxAdds) : e[2] <= Len(txData[e[1]])}

\* the number of Add calls made with a signature Equal to queries
TxAdded(queries) ==
  Cardinality({n \in 1..Len(txAdds) :
                 Equals([Queries |-> txAdds[n]], [Queries |-> queries])})

\* C39: the map holds exactly one stored signature for every class of
\* Equal signatures given to Add, none for the others, and the Count of a
\* stored signature is the number of Add calls made with a signature Equal
\* to it.
C39_OnePerClassCounted ==
  \A queries \in TxSignatures :
    LET stored == {e \in TxStored :
                     Equals(txData[e[1]][e[2]], [Queries |-> queries])}
    IN /\ Cardinality(stored) = (IF TxAdded(queries) > 0 THEN 1 ELSE 0)
       /\ \A e \in stored : txData[e[1]][e[2]].Count = TxAdded(queries)

====
